---- MODULE Spec2Model ----
(***************************************************************************)
(* Model of ntex/src/http/client/sender.rs: the request head with its two  *)
(* ownership modes (RequestHeadType::Owned, RequestHeadType::Rc), the body *)
(* dispatch operations (send_body, send_json, send_form, send_stream,      *)
(* send) and the SendClientRequest future with its poll protocol.          *)
(***************************************************************************)
EXTENDS Integers, Sequences, FiniteSets, TLC

\* Option<T>: None, and Some(x)
None == <<>>

Some(x) == <<x>>

\* A header name that a map holds no value for
Absent == "absent"

\* ------------------------------------------------------------------------
\* Bounds
\* ------------------------------------------------------------------------

\* Durations a timeout may carry: 0 (elapsed as soon as created) .. MaxDuration
MaxDuration == 1

\* Polls of one task that the model follows
MaxPolls == 3

\* ------------------------------------------------------------------------
\* Header maps and request heads
\* ------------------------------------------------------------------------

\* The logical requests; every Rc head references the one shared base.
Reqs == {"r1", "r2"}

CONTENT_TYPE == "content-type"

ACCEPT == "accept"

HeaderNames == {CONTENT_TYPE, ACCEPT}

JSON == "application/json"

FORM == "application/x-www-form-urlencoded"

BadValue == "bad\nvalue"

\* Raw values a caller may hand over for a header name; BadValue carries a
\* byte that no header value may hold.
RawValues(key) == IF key = CONTENT_TYPE THEN {JSON, FORM, BadValue} ELSE {JSON, BadValue}

\* HeaderValue::try_from: the bytes are kept as they are when every byte is
\* a legal header byte, and the conversion fails otherwise.
HeaderValueTryFrom(value) ==
    IF value = BadValue
    THEN [ok |-> FALSE, value |-> "InvalidHeaderValue"]
    ELSE [ok |-> TRUE, value |-> value]

HeaderValues(key) == {v \in RawValues(key) : HeaderValueTryFrom(v).ok}

\* A header map: each name carries a value or none.
HeaderMaps ==
    {m \in [HeaderNames -> {JSON, FORM, Absent}] :
        \A k \in HeaderNames : m[k] \in HeaderValues(k) \cup {Absent}}

\* HeaderMap::new()
HeaderMapNew == [k \in HeaderNames |-> Absent]

contains_key(m, key) == m[key] # Absent

insert(m, key, v) == [m EXCEPT ![key] = v]

\* Option::get_or_insert: the value held, or v when none is held
get_or_insert(opt, v) == IF opt = None THEN v ELSE opt[1]

\* RequestHeadType::Owned(head): the head's own header map.
Owned(m) == [type |-> "Owned", headers |-> m]

\* RequestHeadType::Rc(head, extra_headers): a reference to the shared base
\* (the variable base) and the optional private overlay.
Rc(extra) == [type |-> "Rc", extra |-> extra]

Heads ==
    {Owned(m) : m \in HeaderMaps}
        \cup {Rc(Some(m)) : m \in HeaderMaps} \cup {Rc(None)}

\* A head that was passed by value to a send operation.
Moved == [type |-> "Moved"]

Durations == 0 .. MaxDuration

Timeouts == {Some(d) : d \in Durations} \cup {None}

\* Option::or_else
or_else(opt, other) == IF opt = None THEN other ELSE opt

\* Values handed to send_json / send_form; the serializers fail on one.
SerValues == {"value", "unserializable"}

\* serde_json::to_string
serde_json_to_string(value) ==
    IF value = "unserializable"
    THEN [ok |-> FALSE, err |-> "serde_json"]
    ELSE [ok |-> TRUE, body |-> [kind |-> "Bytes", text |-> "json"]]

\* serde_urlencoded::to_string
serde_urlencoded_to_string(value) ==
    IF value = "unserializable"
    THEN [ok |-> FALSE, err |-> "serde_urlencoded"]
    ELSE [ok |-> TRUE, body |-> [kind |-> "Bytes", text |-> "urlencoded"]]

\* Body::Empty
BodyEmpty == [kind |-> "Empty", text |-> ""]

\* Body::from_message(BodyStream::new(stream))
BodyStream == [kind |-> "Message", text |-> "stream"]

\* Bodies a caller may hand to send_body
Bodies == {BodyEmpty, BodyStream, [kind |-> "Bytes", text |-> "raw"]}

\* ------------------------------------------------------------------------
\* Errors
\* ------------------------------------------------------------------------

\* SendRequestError::Url, ::Http, ::Error, ::Timeout and the transport's
\* own failures (::Connect stands for them).
SendRequestError(variant, cause) == [variant |-> variant, cause |-> cause]

Timeout == SendRequestError("Timeout", "deadline")

TransportError == SendRequestError("Connect", "transport")

\* The conversion with every preparation error filed as an HTTP-layer error
prep_into_http_only(e) == [variant |-> "Http", cause |-> e.cause]

\* impl Into<SendRequestError> for PrepForSendingError
PrepIntoSendRequestError(e) ==
    IF e.variant = "Url"
    THEN SendRequestError("Url", e.cause)
    ELSE SendRequestError("Http", e.cause)

\* impl Into<FreezeRequestError> for PrepForSendingError
PrepIntoFreezeRequestError(e) ==
    IF e.variant = "Url"
    THEN [variant |-> "Url", cause |-> e.cause]
    ELSE [variant |-> "Http", cause |-> e.cause]

\* HttpError into SendRequestError (the derived From of the Http variant)
HttpIntoSendRequestError(cause) == SendRequestError("Http", cause)

\* ------------------------------------------------------------------------
\* SendClientRequest
\* ------------------------------------------------------------------------

\* The future connector.send_request returns: not yet ready.
SendPending == [state |-> "pending"]

\* delay_for(d): a timer that elapses d after its creation.
delay_for(d) == [dur |-> d, elapsed |-> d = 0]

\* new with a deadline of zero armed when no timeout is given
new_default_deadline(fut, response_decompress, timeout) ==
    [kind |-> "Fut",
     send |-> fut,
     delay |-> IF timeout = None
               THEN Some(delay_for(0)) ELSE Some(delay_for(timeout[1])),
     decompress |-> response_decompress]

\* SendClientRequest::new
New(fut, response_decompress, timeout) ==
    [kind |-> "Fut",
     send |-> fut,
     delay |-> IF timeout = None THEN None ELSE Some(delay_for(timeout[1])),
     decompress |-> response_decompress]

\* impl From<SendRequestError> for SendClientRequest
FromSendRequestError(e) == [kind |-> "Err", err |-> Some(e)]

\* impl From<HttpError> for SendClientRequest
FromHttpError(cause) ==
    [kind |-> "Err", err |-> Some(HttpIntoSendRequestError(cause))]

\* impl From<PrepForSendingError> for SendClientRequest
FromPrepForSendingError(e) ==
    [kind |-> "Err", err |-> Some(PrepIntoSendRequestError(e))]

\* No task is held.
NoTask == [kind |-> "NoTask"]

VARIABLES
    base,        \* the header map of the shared base head
    heads,       \* heads[r]: the request head of r, or Moved
    last,        \* the last call on a head: arguments, pre-state, results
    compress,    \* whether the build has the feature "compress"
    task,        \* a SendClientRequest that is being polled
    polls        \* what each poll of task did and yielded, in order

vars == <<base, heads, last, compress, task, polls>>

\* ------------------------------------------------------------------------
\* RequestHeadType::set_header_if_none
\* ------------------------------------------------------------------------

\* What a call yields: the head and the shared base after it, and what it
\* returns ("Ok", or the HttpError).
HeadResult(self, b, ret) == [self |-> self, base |-> b, ret |-> ret]

\* The Owned arm with the insert done whether or not the name is present
set_header_owned_always(self, b, key, value) ==
    LET c == HeaderValueTryFrom(value) IN
    IF c.ok
    THEN HeadResult(Owned(insert(self.headers, key, c.value)), b, "Ok")
    ELSE HeadResult(self, b, c.value)

\* The arm RequestHeadType::Owned(head)
set_header_owned(self, b, key, value) ==
    IF ~contains_key(self.headers, key)
    THEN LET c == HeaderValueTryFrom(value) IN
         IF c.ok
         THEN HeadResult(Owned(insert(self.headers, key, c.value)), b, "Ok")
         ELSE HeadResult(self, b, c.value)
    ELSE HeadResult(self, b, "Ok")

\* The Rc arm with the overlay left out of the presence test
set_header_rc_base_only(self, b, key, value) ==
    IF ~contains_key(b, key)
    THEN LET c == HeaderValueTryFrom(value) IN
         IF c.ok
         THEN LET h == get_or_insert(self.extra, HeaderMapNew)
              IN  HeadResult(Rc(Some(insert(h, key, c.value))), b, "Ok")
         ELSE HeadResult(self, b, c.value)
    ELSE HeadResult(self, b, "Ok")

\* The Rc arm with the base left out of the presence test
set_header_rc_overlay_only(self, b, key, value) ==
    IF ~(\E i \in DOMAIN self.extra : contains_key(self.extra[i], key))
    THEN LET c == HeaderValueTryFrom(value) IN
         IF c.ok
         THEN LET h == get_or_insert(self.extra, HeaderMapNew)
              IN  HeadResult(Rc(Some(insert(h, key, c.value))), b, "Ok")
         ELSE HeadResult(self, b, c.value)
    ELSE HeadResult(self, b, "Ok")

\* The Rc arm with the insert made into the shared base
set_header_rc_into_base(self, b, key, value) ==
    IF ~contains_key(b, key)
       /\ ~(\E i \in DOMAIN self.extra : contains_key(self.extra[i], key))
    THEN LET c == HeaderValueTryFrom(value) IN
         IF c.ok
         THEN HeadResult(self, insert(b, key, c.value), "Ok")
         ELSE HeadResult(self, b, c.value)
    ELSE HeadResult(self, b, "Ok")

\* The Rc arm with a fresh overlay put in place of the one held
set_header_rc_fresh_overlay(self, b, key, value) ==
    IF ~contains_key(b, key)
       /\ ~(\E i \in DOMAIN self.extra : contains_key(self.extra[i], key))
    THEN LET c == HeaderValueTryFrom(value) IN
         IF c.ok
         THEN HeadResult(Rc(Some(insert(HeaderMapNew, key, c.value))), b, "Ok")
         ELSE HeadResult(self, b, c.value)
    ELSE HeadResult(self, b, "Ok")

\* The Rc arm with the overlay created before the value is validated
set_header_rc_overlay_first(self, b, key, value) ==
    IF ~contains_key(b, key)
       /\ ~(\E i \in DOMAIN self.extra : contains_key(self.extra[i], key))
    THEN LET h == get_or_insert(self.extra, HeaderMapNew)
             c == HeaderValueTryFrom(value)
         IN  IF c.ok
             THEN HeadResult(Rc(Some(insert(h, key, c.value))), b, "Ok")
             ELSE HeadResult(Rc(Some(h)), b, c.value)
    ELSE HeadResult(self, b, "Ok")

\* The arm RequestHeadType::Rc(head, extra_headers)
set_header_rc(self, b, key, value) ==
    IF ~contains_key(b, key)
       /\ ~(\E i \in DOMAIN self.extra : contains_key(self.extra[i], key))
    THEN LET c == HeaderValueTryFrom(value) IN
         IF c.ok
         THEN LET h == get_or_insert(self.extra, HeaderMapNew)
              IN  HeadResult(Rc(Some(insert(h, key, c.value))), b, "Ok")
         ELSE HeadResult(self, b, c.value)
    ELSE HeadResult(self, b, "Ok")

\* RequestHeadType::set_header_if_none
set_header_if_none(self, b, key, value) ==
    IF self.type = "Owned"
    THEN set_header_owned(self, b, key, value)
    ELSE set_header_rc(self, b, key, value)

\* ------------------------------------------------------------------------
\* Body dispatch
\* ------------------------------------------------------------------------

\* One call of connector.send_request(head, body, addr)
SendRequest(self, b, body) == [head |-> self, base |-> b, body |-> body]

\* send_body with the client-wide default taken before the per-request
\* timeout
send_body_config_first(self, b, response_decompress, timeout, config, body) ==
    [task |-> New(SendPending, response_decompress,
                  or_else(config.timeout, timeout)),
     sent |-> <<SendRequest(self, b, body)>>,
     base |-> b]

\* RequestHeadType::send_body: the task returned, the calls made on the
\* connector, and the shared base after the call.
send_body(self, b, response_decompress, timeout, config, body) ==
    [task |-> New(SendPending, response_decompress,
                  or_else(timeout, config.timeout)),
     sent |-> <<SendRequest(self, b, body)>>,
     base |-> b]

\* send_json with the serializer's failure replaced by an empty body
send_json_unchecked(self, b, response_decompress, timeout, config, value) ==
    LET body == serde_json_to_string(value)
        h == set_header_if_none(self, b, CONTENT_TYPE, JSON)
    IN  IF h.ret # "Ok"
        THEN [task |-> FromHttpError(h.ret), sent |-> <<>>, base |-> h.base]
        ELSE send_body(h.self, h.base, response_decompress, timeout, config,
                       IF body.ok THEN body.body ELSE [kind |-> "Bytes", text |-> ""])

\* RequestHeadType::send_json
send_json(self, b, response_decompress, timeout, config, value) ==
    LET body == serde_json_to_string(value) IN
    IF ~body.ok
    THEN [task |-> FromSendRequestError(SendRequestError("Error", body.err)),
          sent |-> <<>>, base |-> b]
    ELSE LET h == set_header_if_none(self, b, CONTENT_TYPE, JSON) IN
         IF h.ret # "Ok"
         THEN [task |-> FromHttpError(h.ret), sent |-> <<>>, base |-> h.base]
         ELSE send_body(h.self, h.base, response_decompress, timeout, config,
                        body.body)

\* RequestHeadType::send_form
send_form(self, b, response_decompress, timeout, config, value) ==
    LET body == serde_urlencoded_to_string(value) IN
    IF ~body.ok
    THEN [task |-> FromSendRequestError(SendRequestError("Error", body.err)),
          sent |-> <<>>, base |-> b]
    ELSE LET h == set_header_if_none(self, b, CONTENT_TYPE, FORM) IN
         IF h.ret # "Ok"
         THEN [task |-> FromHttpError(h.ret), sent |-> <<>>, base |-> h.base]
         ELSE send_body(h.self, h.base, response_decompress, timeout, config,
                        body.body)

\* RequestHeadType::send_stream
send_stream(self, b, response_decompress, timeout, config) ==
    send_body(self, b, response_decompress, timeout, config, BodyStream)

\* send with a default content-type set before the body is dispatched
send_with_default(self, b, response_decompress, timeout, config) ==
    LET h == set_header_if_none(self, b, CONTENT_TYPE, JSON) IN
    send_body(h.self, h.base, response_decompress, timeout, config, BodyEmpty)

\* RequestHeadType::send
send(self, b, response_decompress, timeout, config) ==
    send_body(self, b, response_decompress, timeout, config, BodyEmpty)

\* ClientConfig, as far as this file reads it
Configs == [timeout : Timeouts]

\* The arguments the send operations share
SendArgs == [decompress : BOOLEAN, timeout : Timeouts, config : Configs]

NoArgs == [decompress |-> FALSE, timeout |-> None, config |-> [timeout |-> None]]

\* The arguments the calls on the two heads are followed with: none of them
\* reaches a head; InitTask follows every combination of SendArgs.
HeadArgs ==
    {a \in SendArgs :
        /\ a.decompress
        /\ a.config.timeout = None
        /\ a.timeout \in {None, Some(MaxDuration)}}

\* The call before was not set_header_if_none on the same head and name.
NoPrior == [value |-> "", ret |-> "", changed |-> FALSE, same |-> FALSE]

\* What a call leaves in last: its name and arguments, the heads and the
\* base before it, what it returned, its calls on the connector, and (prior)
\* the call before when that was set_header_if_none on the same head and name.
Op(name, r, key, value, args, ret, t, s, prior) ==
    [op |-> name, req |-> r, key |-> key, value |-> value, args |-> args,
     heads |-> heads, base |-> base, ret |-> ret, task |-> t, sent |-> s,
     prior |-> prior]

SetHeaderIfNone(r, key, value) ==
    /\ heads[r] # Moved
    /\ LET res == set_header_if_none(heads[r], base, key, value)
           prior == IF last.op = "set_header_if_none" /\ last.req = r
                       /\ last.key = key
                    THEN [value |-> last.value, ret |-> last.ret,
                          changed |-> heads[r] # last.heads[r], same |-> TRUE]
                    ELSE NoPrior
       IN
       /\ heads' = [heads EXCEPT ![r] = res.self]
       /\ base' = res.base
       /\ last' = Op("set_header_if_none", r, key, value, NoArgs, res.ret,
                     NoTask, <<>>, prior)
    /\ UNCHANGED <<compress, task, polls>>

\* A send operation takes the head by value and returns a task.
Dispatch(name, r, value, args, res) ==
    /\ heads[r] # Moved
    /\ heads' = [heads EXCEPT ![r] = Moved]
    /\ base' = res.base
    /\ last' = Op(name, r, "", value, args, "", res.task, res.sent, NoPrior)
    /\ UNCHANGED <<compress, task, polls>>

SendBody(r, a, body) ==
    Dispatch("send_body", r, body.kind, a,
             send_body(heads[r], base, a.decompress, a.timeout, a.config, body))

SendJson(r, a, value) ==
    Dispatch("send_json", r, value, a,
             send_json(heads[r], base, a.decompress, a.timeout, a.config, value))

SendForm(r, a, value) ==
    Dispatch("send_form", r, value, a,
             send_form(heads[r], base, a.decompress, a.timeout, a.config, value))

SendStream(r, a) ==
    Dispatch("send_stream", r, "", a,
             send_stream(heads[r], base, a.decompress, a.timeout, a.config))

Send(r, a) ==
    Dispatch("send", r, "", a,
             send(heads[r], base, a.decompress, a.timeout, a.config))

\* ------------------------------------------------------------------------
\* The transport's responses
\* ------------------------------------------------------------------------

Statuses == {200, 404}

\* What a response's content-encoding header may hold
ResponseEncodings == {Absent, "gzip", "x-unknown"}

\* ClientResponse as the send operation yields it: the payload is untouched.
Responses ==
    [status : Statuses, encoding : ResponseEncodings, body : {[stream |-> "payload"]}]

\* Result<ClientResponse, SendRequestError> of the send operation
SendResults ==
    {[ok |-> TRUE, resp |-> r] : r \in Responses}
        \cup {[ok |-> FALSE, err |-> TransportError]}

\* ContentEncoding::from(&str)
ContentEncodingFrom(enc) ==
    CASE enc = "br" -> "Br"
      [] enc = "gzip" -> "Gzip"
      [] enc = "deflate" -> "Deflate"
      [] OTHER -> "Identity"

\* Decoder::from_headers(payload, headers)
DecoderFromHeaders(payload, enc) ==
    [stream |-> "Decoder",
     encoding |-> IF enc = Absent THEN "Identity" ELSE ContentEncodingFrom(enc)]

\* Decoder::new(payload, encoding)
DecoderNew(payload, encoding) == [stream |-> "Decoder", encoding |-> encoding]

\* map_body with the decoder selected by the headers whatever the flag
map_body_from_headers(res, response_decompress) ==
    IF ~res.ok
    THEN res
    ELSE [res EXCEPT !.resp.body =
              DecoderFromHeaders(res.resp.body, res.resp.encoding)]

\* map_body with the identity decoder whatever the flag
map_body_identity(res, response_decompress) ==
    IF ~res.ok
    THEN res
    ELSE [res EXCEPT !.resp.body = DecoderNew(res.resp.body, "Identity")]

\* map_body with an error of the send operation filed anew
map_body_error_refiled(res, response_decompress) ==
    IF ~res.ok
    THEN [ok |-> FALSE, err |-> SendRequestError("Error", res.err.cause)]
    ELSE [res EXCEPT !.resp.body =
              IF response_decompress
              THEN DecoderFromHeaders(res.resp.body, res.resp.encoding)
              ELSE DecoderNew(res.resp.body, "Identity")]

\* res.map(|res| res.map_body(...)) under the feature "compress"
map_body(res, response_decompress) ==
    IF ~res.ok
    THEN res
    ELSE [res EXCEPT !.resp.body =
              IF response_decompress
              THEN DecoderFromHeaders(res.resp.body, res.resp.encoding)
              ELSE DecoderNew(res.resp.body, "Identity")]

\* ------------------------------------------------------------------------
\* impl Future for SendClientRequest
\* ------------------------------------------------------------------------

Pending == [kind |-> "Pending"]

Ready(res) == [kind |-> "Ready", res |-> res]

Panic == [kind |-> "Panic"]

\* One way a poll may go: the task after it, what it yields, and the
\* sub-operations it polled, in order.
Outcome(t, out, sub) == [task |-> t, out |-> out, sub |-> sub]

\* Polling the send operation: a pending one stays pending, a ready one
\* hands over its result once.  A future that is polled again after it has
\* completed may panic, stay pending or yield anything (the Future trait
\* leaves it open).
PollSend(fut) ==
    CASE fut.state = "pending" -> {[send |-> fut, out |-> Pending]}
      [] fut.state = "ready" ->
            {[send |-> [state |-> "done"], out |-> Ready(fut.res)]}
      [] OTHER ->
            {[send |-> fut, out |-> o] :
                o \in {Panic, Pending} \cup {Ready(res) : res \in SendResults}}

\* poll with the send operation polled before the deadline timer
poll_send_first(t, feature_compress) ==
    IF t.kind = "Fut"
    THEN UNION {
           IF p.out.kind = "Pending" /\ t.delay # None /\ t.delay[1].elapsed
           THEN {Outcome([t EXCEPT !.send = p.send],
                         Ready([ok |-> FALSE, err |-> Timeout]),
                         <<"send", "delay">>)}
           ELSE {Outcome([t EXCEPT !.send = p.send],
                         IF p.out.kind = "Ready" /\ feature_compress
                         THEN Ready(map_body(p.out.res, t.decompress))
                         ELSE p.out,
                         IF t.delay # None /\ p.out.kind = "Pending"
                         THEN <<"send", "delay">> ELSE <<"send">>)}
           : p \in PollSend(t.send)}
    ELSE IF t.err # None
         THEN {Outcome([t EXCEPT !.err = None],
                       Ready([ok |-> FALSE, err |-> t.err[1]]), <<>>)}
         ELSE {Outcome(t, Panic, <<>>)}

\* poll with the stored error of a Terminal-error task cloned, not taken
poll_error_kept(t, feature_compress) ==
    IF t.kind = "Fut"
    THEN IF t.delay # None /\ t.delay[1].elapsed
         THEN {Outcome(t, Ready([ok |-> FALSE, err |-> Timeout]), <<"delay">>)}
         ELSE LET sub == IF t.delay # None THEN <<"delay", "send">> ELSE <<"send">>
              IN  {Outcome([t EXCEPT !.send = p.send],
                           IF p.out.kind = "Ready" /\ feature_compress
                           THEN Ready(map_body(p.out.res, t.decompress))
                           ELSE p.out,
                           sub) : p \in PollSend(t.send)}
    ELSE IF t.err # None
         THEN {Outcome(t, Ready([ok |-> FALSE, err |-> t.err[1]]), <<>>)}
         ELSE {Outcome(t, Panic, <<>>)}

\* poll with the result of a ready send operation dropped
poll_result_lost(t, feature_compress) ==
    IF t.kind = "Fut"
    THEN IF t.delay # None /\ t.delay[1].elapsed
         THEN {Outcome(t, Ready([ok |-> FALSE, err |-> Timeout]), <<"delay">>)}
         ELSE LET sub == IF t.delay # None THEN <<"delay", "send">> ELSE <<"send">>
              IN  {Outcome([t EXCEPT !.send = p.send], Pending, sub)
                       : p \in PollSend(t.send)}
    ELSE IF t.err # None
         THEN {Outcome([t EXCEPT !.err = None],
                       Ready([ok |-> FALSE, err |-> t.err[1]]), <<>>)}
         ELSE {Outcome(t, Panic, <<>>)}

\* poll with the deadline timer dropped by a poll that yields Pending
poll_pending_disarms(t, feature_compress) ==
    IF t.kind = "Fut"
    THEN IF t.delay # None /\ t.delay[1].elapsed
         THEN {Outcome(t, Ready([ok |-> FALSE, err |-> Timeout]), <<"delay">>)}
         ELSE LET sub == IF t.delay # None THEN <<"delay", "send">> ELSE <<"send">>
              IN  {Outcome(IF p.out.kind = "Pending"
                           THEN [t EXCEPT !.send = p.send, !.delay = None]
                           ELSE [t EXCEPT !.send = p.send],
                           IF p.out.kind = "Ready" /\ feature_compress
                           THEN Ready(map_body(p.out.res, t.decompress))
                           ELSE p.out,
                           sub) : p \in PollSend(t.send)}
    ELSE IF t.err # None
         THEN {Outcome([t EXCEPT !.err = None],
                       Ready([ok |-> FALSE, err |-> t.err[1]]), <<>>)}
         ELSE {Outcome(t, Panic, <<>>)}

\* poll with the deadline timer never looked at
poll_timer_ignored(t, feature_compress) ==
    IF t.kind = "Fut"
    THEN {Outcome([t EXCEPT !.send = p.send],
                  IF p.out.kind = "Ready" /\ feature_compress
                  THEN Ready(map_body(p.out.res, t.decompress))
                  ELSE p.out,
                  <<"send">>) : p \in PollSend(t.send)}
    ELSE IF t.err # None
         THEN {Outcome([t EXCEPT !.err = None],
                       Ready([ok |-> FALSE, err |-> t.err[1]]), <<>>)}
         ELSE {Outcome(t, Panic, <<>>)}

\* SendClientRequest::poll: every way the poll of t may go.
poll(t, feature_compress) ==
    IF t.kind = "Fut"
    THEN IF t.delay # None /\ t.delay[1].elapsed
         THEN {Outcome(t, Ready([ok |-> FALSE, err |-> Timeout]), <<"delay">>)}
         ELSE LET sub == IF t.delay # None THEN <<"delay", "send">> ELSE <<"send">>
              IN  {Outcome([t EXCEPT !.send = p.send],
                           IF p.out.kind = "Ready" /\ feature_compress
                           THEN Ready(map_body(p.out.res, t.decompress))
                           ELSE p.out,
                           sub) : p \in PollSend(t.send)}
    ELSE IF t.err # None
         THEN {Outcome([t EXCEPT !.err = None],
                       Ready([ok |-> FALSE, err |-> t.err[1]]), <<>>)}
         ELSE {Outcome(t, Panic, <<>>)}

\* What a poll leaves in polls: the task before and after it, what it
\* yielded and the sub-operations it polled, in order.
PollRecord(t, o) == [pre |-> t, post |-> o.task, out |-> o.out, sub |-> o.sub]

\* One poll of the task.  A poll that finds the task as the poll before left
\* it and yields Pending again, leaving it so, changes nothing and is not
\* followed as a step.
Poll ==
    /\ task # NoTask
    /\ Len(polls) < MaxPolls
    /\ \E o \in poll(task, compress) :
           /\ ~(/\ o.out = Pending
                /\ polls # <<>>
                /\ polls[Len(polls)] = PollRecord(task, o))
           /\ task' = o.task
           /\ polls' = Append(polls, PollRecord(task, o))
    /\ UNCHANGED <<base, heads, last, compress>>

\* The transport completes the send operation.
SendCompletes(res) ==
    /\ task.kind = "Fut"
    /\ task.send.state = "pending"
    /\ task' = [task EXCEPT !.send = [state |-> "ready", res |-> res]]
    /\ UNCHANGED <<base, heads, last, compress, polls>>

\* The deadline is reached.
TimerElapses ==
    /\ task.kind = "Fut"
    /\ task.delay # None
    /\ ~task.delay[1].elapsed
    /\ task' = [task EXCEPT !.delay = Some([task.delay[1] EXCEPT !.elapsed = TRUE])]
    /\ UNCHANGED <<base, heads, last, compress, polls>>

\* ------------------------------------------------------------------------
\* Specifications
\* ------------------------------------------------------------------------

TypeOK ==
    /\ base \in HeaderMaps
    /\ heads \in [Reqs -> Heads \cup {Moved}]

\* Two request heads over one shared base, before any call.
Init ==
    /\ base \in HeaderMaps
    /\ heads \in [Reqs -> Heads]
    /\ last = [op |-> "init"]
    /\ compress = TRUE
    /\ task = NoTask
    /\ polls = <<>>

Next ==
    \E r \in Reqs :
        \/ \E key \in HeaderNames : \E value \in RawValues(key) :
               SetHeaderIfNone(r, key, value)
        \/ \E a \in HeadArgs :
               \/ \E body \in Bodies : SendBody(r, a, body)
               \/ \E value \in SerValues : SendJson(r, a, value)
               \/ \E value \in SerValues : SendForm(r, a, value)
               \/ SendStream(r, a)
               \/ Send(r, a)

Spec == Init /\ [][Next]_vars

\* PrepForSendingError::Url(InvalidUrl), ::Http(HttpError)
PrepErrors ==
    {[variant |-> "Url", cause |-> "InvalidUrl"],
     [variant |-> "Http", cause |-> "InvalidHeaderValue"]}

\* An Active task right after send_json returned it, for every combination
\* of the send arguments.
InitActive ==
    \E a \in SendArgs :
        LET res == send_json(Owned(HeaderMapNew), HeaderMapNew, a.decompress,
                             a.timeout, a.config, "value")
        IN  /\ task = res.task
            /\ last = [op |-> "send_json", value |-> "value", args |-> a,
                       sent |-> res.sent]

\* A Terminal-error task right after it was returned: by send_json or
\* send_form for a value that does not serialize, or by a caller that turned
\* a preparation error into the task.
InitTerminal ==
    \/ \E a \in SendArgs :
        LET res == send_json(Owned(HeaderMapNew), HeaderMapNew, a.decompress,
                             a.timeout, a.config, "unserializable")
        IN  /\ task = res.task
            /\ last = [op |-> "send_json", value |-> "unserializable",
                       args |-> a, sent |-> res.sent]
    \/ \E a \in SendArgs :
        LET res == send_form(Owned(HeaderMapNew), HeaderMapNew, a.decompress,
                             a.timeout, a.config, "unserializable")
        IN  /\ task = res.task
            /\ last = [op |-> "send_form", value |-> "unserializable",
                       args |-> a, sent |-> res.sent]
    \/ \E e \in PrepErrors :
        /\ task = FromPrepForSendingError(e)
        /\ last = [op |-> "from", value |-> e.variant, args |-> NoArgs,
                   sent |-> <<>>]

\* One task right after it was returned to the caller.
InitTask ==
    /\ base = HeaderMapNew
    /\ heads = [r \in Reqs |-> Moved]
    /\ compress \in BOOLEAN
    /\ polls = <<>>
    /\ (InitActive \/ InitTerminal)

NextTask ==
    \/ Poll
    \/ \E res \in SendResults : SendCompletes(res)
    \/ TimerElapses

SpecTask == InitTask /\ [][NextTask]_vars

\* The scheduler polls a task that can make progress, and time passes: the
\* deadline of a timer is reached.  Nothing is assumed of the transport.
SpecTaskFair == SpecTask /\ WF_vars(Poll) /\ WF_vars(TimerElapses)

\* ------------------------------------------------------------------------
\* Properties of the header overlay and the body dispatch (specification Spec)
\* ------------------------------------------------------------------------

\* The last call was op, made on a head of the given type.
Called(ops) == last.op \in ops

\* The head the last call was made on, as it was before the call and after
PreHead == last.heads[last.req]

PostHead == heads[last.req]

\* The values a head shows for a name, over its own map, or over the shared
\* base and the overlay
Layers(h, b, key) ==
    IF h.type = "Owned"
    THEN {h.headers[key]} \ {Absent}
    ELSE ({b[key]} \cup {h.extra[i][key] : i \in DOMAIN h.extra}) \ {Absent}

\* The view of an Rc head: the base with the overlay's entries over it
View(h, b) ==
    [k \in HeaderNames |->
        IF h.extra # None /\ h.extra[1][k] # Absent THEN h.extra[1][k] ELSE b[k]]

\* The default content-type of send_json / send_form
DefaultContentType == IF last.op = "send_json" THEN JSON ELSE FORM

\* C4: when send_json or send_form fails to serialize the value, or fails to
\* validate the default content-type it has to insert, the task returned is
\* Terminal-error with its error in place (an Http error for the header
\* failure), and the call has asked the connector for no send operation and
\* has created no timer.
C4_PrepFailureIsTerminal ==
    Called({"send_json", "send_form"}) =>
        LET serFails == last.value = "unserializable"
            headerFails == /\ ~serFails
                           /\ Layers(PreHead, last.base, CONTENT_TYPE) = {}
                           /\ ~HeaderValueTryFrom(DefaultContentType).ok
        IN  (serFails \/ headerFails) =>
               /\ last.task.kind = "Err"
               /\ last.task.err # None
               /\ last.sent = <<>>
               /\ headerFails => last.task.err[1].variant = "Http"

\* C4 witness: send_form with a timeout and a value that does not serialize
C4_Witness ==
    /\ Called({"send_form"})
    /\ last.value = "unserializable"
    /\ last.args.timeout # None
    /\ last.task.kind = "Err"
    /\ last.sent = <<>>

\* C5: send_json / send_form hand the connector the caller's head unchanged
\* when a content-type is visible in the owned map, the base or the overlay,
\* and a head whose only content-type is the default when none is visible;
\* the other names are as the caller set them.
C5_DefaultContentType ==
    (Called({"send_json", "send_form"}) /\ last.value = "value") =>
        /\ Len(last.sent) = 1
        /\ LET s == last.sent[1] IN
           /\ s.base = last.base
           /\ s.head.type = PreHead.type
           /\ IF Layers(PreHead, last.base, CONTENT_TYPE) # {}
              THEN s.head = PreHead
              ELSE /\ Layers(s.head, s.base, CONTENT_TYPE) = {DefaultContentType}
                   /\ \A k \in HeaderNames \ {CONTENT_TYPE} :
                          Layers(s.head, s.base, k) = Layers(PreHead, last.base, k)

\* C5 witness: send_json on an Rc head whose overlay holds an explicit
\* content-type hands that head over as it is.
C5_Witness ==
    /\ Called({"send_json"})
    /\ PreHead.type = "Rc"
    /\ last.base[CONTENT_TYPE] = Absent
    /\ PreHead.extra # None
    /\ PreHead.extra[1][CONTENT_TYPE] = FORM
    /\ Len(last.sent) = 1
    /\ last.sent[1].head = PreHead

\* C6: no call changes the shared base (so it stays as it was initially),
\* the base handed to the connector is that base, and a call on one head
\* changes neither another head nor what another Rc head shows.
C6_BaseNeverMutated ==
    ~Called({"init"}) =>
        /\ base = last.base
        /\ \A i \in DOMAIN last.sent : last.sent[i].base = last.base
        /\ \A q \in Reqs \ {last.req} :
               /\ heads[q] = last.heads[q]
               /\ heads[q].type = "Rc" =>
                      View(heads[q], base) = View(last.heads[q], last.base)

\* C6 witness: send_json writes the default for one Rc head while another Rc
\* head over the same base shows no content-type.
C6_Witness ==
    /\ Called({"send_json"})
    /\ PreHead.type = "Rc"
    /\ Len(last.sent) = 1
    /\ last.sent[1].head # PreHead
    /\ \E q \in Reqs \ {last.req} :
           /\ heads[q].type = "Rc"
           /\ View(heads[q], base)[CONTENT_TYPE] = Absent

\* C7: set_header_if_none on an Rc head for a name the base holds changes
\* neither the base nor the overlay (an absent overlay stays absent) and
\* returns Ok.
C7_PresentInBase ==
    (/\ Called({"set_header_if_none"})
     /\ PreHead.type = "Rc"
     /\ last.base[last.key] # Absent) =>
        /\ base = last.base
        /\ PostHead = PreHead
        /\ last.ret = "Ok"

\* C7 witness: such a call, with a valid value, on a head with no overlay
C7_Witness ==
    /\ Called({"set_header_if_none"})
    /\ PreHead.type = "Rc"
    /\ last.base[last.key] # Absent
    /\ HeaderValueTryFrom(last.value).ok
    /\ last.value # last.base[last.key]
    /\ PreHead.extra = None
    /\ PostHead.extra = None

\* C8: set_header_if_none on an Rc head for a name absent from the base and
\* the overlay, with a valid value, leaves an overlay that holds the value
\* for that name and is otherwise as before (empty if there was none); a
\* second call for the same name, with any value, changes nothing, keeps the
\* first value and returns Ok.
C8_InsertOnce ==
    (Called({"set_header_if_none"}) /\ PreHead.type = "Rc") =>
        /\ (/\ Layers(PreHead, last.base, last.key) = {}
            /\ HeaderValueTryFrom(last.value).ok) =>
               /\ PostHead.type = "Rc"
               /\ PostHead.extra # None
               /\ PostHead.extra[1][last.key] = last.value
               /\ \A k \in HeaderNames \ {last.key} :
                      PostHead.extra[1][k] =
                          IF PreHead.extra = None THEN Absent ELSE PreHead.extra[1][k]
               /\ last.ret = "Ok"
        /\ (last.prior.same /\ last.prior.changed) =>
               /\ PostHead = PreHead
               /\ PostHead.extra[1][last.key] = last.prior.value
               /\ last.ret = "Ok"

\* C8 witness: the second of two calls for one name, the first of which
\* inserted, comes with another valid value and changes nothing.
C8_Witness ==
    /\ Called({"set_header_if_none"})
    /\ PreHead.type = "Rc"
    /\ last.prior.same
    /\ last.prior.changed
    /\ HeaderValueTryFrom(last.value).ok
    /\ last.value # last.prior.value
    /\ PostHead.extra[1][last.key] = last.prior.value

\* C9: set_header_if_none on an Owned head leaves the map unchanged when the
\* name is present, and the second of two calls with the same name and
\* value leaves the map as the first call left it.
C9_OwnedIdempotent ==
    (Called({"set_header_if_none"}) /\ PreHead.type = "Owned") =>
        /\ PreHead.headers[last.key] # Absent => PostHead = PreHead
        /\ (last.prior.same /\ last.prior.value = last.value) => PostHead = PreHead

\* C9 witness: the second of two calls with the same name and value on an
\* Owned head, the first of which inserted
C9_Witness ==
    /\ Called({"set_header_if_none"})
    /\ PreHead.type = "Owned"
    /\ last.prior.same
    /\ last.prior.changed
    /\ last.prior.value = last.value
    /\ PostHead.headers[last.key] = last.value

\* C10: a call of set_header_if_none that returns an error has changed
\* nothing: not the owned map, not the base, not the overlay, and an absent
\* overlay is still absent.
C10_ErrorMutatesNothing ==
    (Called({"set_header_if_none"}) /\ last.ret # "Ok") =>
        /\ PostHead = PreHead
        /\ base = last.base

\* C10 witness: the call fails on an Rc head that has no overlay
C10_Witness ==
    /\ Called({"set_header_if_none"})
    /\ last.ret # "Ok"
    /\ PreHead = Rc(None)
    /\ PostHead = Rc(None)

\* C18: send, send_stream and send_body add no default header: each asks
\* the connector for exactly one send operation, on the caller's head as it
\* was (owned map or overlay unchanged, no overlay created) over the shared
\* base as it was; send sends the empty body, send_stream the stream; the
\* other head is left alone.
C18_NoDefaultHeader ==
    Called({"send", "send_stream", "send_body"}) =>
        /\ last.task.kind = "Fut"
        /\ Len(last.sent) = 1
        /\ last.sent[1].head = PreHead
        /\ last.sent[1].base = last.base
        /\ base = last.base
        /\ \A r \in Reqs \ {last.req} : heads[r] = last.heads[r]
        /\ last.op = "send" => last.sent[1].body = BodyEmpty
        /\ last.op = "send_stream" => last.sent[1].body = BodyStream
        /\ last.op = "send_body" => last.sent[1].body.kind = last.value

\* C18 witness: send on a shared head with no overlay and no content-type
\* in the base: the connector got that head, still without overlay, and the
\* empty body.
C18_Witness ==
    /\ Called({"send"})
    /\ PreHead.type = "Rc"
    /\ PreHead.extra = None
    /\ Layers(PreHead, last.base, CONTENT_TYPE) = {}
    /\ Len(last.sent) = 1
    /\ last.sent[1].head = PreHead
    /\ last.sent[1].body = BodyEmpty

\* ------------------------------------------------------------------------
\* Properties of the poll protocol (specification SpecTask)
\* ------------------------------------------------------------------------

TimeoutResult == Ready([ok |-> FALSE, err |-> Timeout])

\* The polls of a task that was Active when first polled / Terminal-error
ActiveTask == polls # <<>> /\ polls[1].pre.kind = "Fut"

TerminalTask == polls # <<>> /\ polls[1].pre.kind = "Err"

\* C1: in every poll of an Active task that has a deadline timer the timer
\* is polled first; when it has elapsed the poll yields Timeout and the send
\* operation is not polled in that poll, whatever the send operation holds,
\* and so a task created with an elapsed deadline yields Timeout on its
\* first poll.
C1_DeadlineFirst ==
    \A i \in DOMAIN polls :
        LET p == polls[i] IN
        (p.pre.kind = "Fut" /\ p.pre.delay # None) =>
            /\ p.sub[1] = "delay"
            /\ p.pre.delay[1].elapsed =>
                   (p.out = TimeoutResult /\ p.sub = <<"delay">>)
            /\ (i = 1 /\ p.pre.delay[1].dur = 0) => p.out = TimeoutResult

\* C1 witness: the first poll of a task created with an elapsed deadline
\* finds the send operation ready with a response and yields Timeout.
C1_Witness ==
    /\ ActiveTask
    /\ polls[1].pre.delay # None
    /\ polls[1].pre.delay[1].dur = 0
    /\ polls[1].pre.send.state = "ready"
    /\ polls[1].pre.send.res.ok
    /\ polls[1].out = TimeoutResult

\* C2: once a poll of an Active task has yielded a final result, every later
\* poll panics without polling the timer or the send operation, and no
\* second result is yielded.
C2_ActiveSingleUse ==
    ActiveTask =>
        \A i, j \in DOMAIN polls :
            (i < j /\ polls[i].out.kind = "Ready") =>
                (polls[j].out = Panic /\ polls[j].sub = <<>>)

\* C3: a Terminal-error task yields exactly its stored error on the first
\* poll, polls no timer and no send operation, and every later poll panics.
C3_TerminalOnce ==
    TerminalTask =>
        /\ polls[1].pre.err # None
        /\ polls[1].out = Ready([ok |-> FALSE, err |-> polls[1].pre.err[1]])
        /\ \A i \in DOMAIN polls :
               /\ polls[i].sub = <<>>
               /\ i > 1 => polls[i].out = Panic

\* C3 witness: a Terminal-error task that was polled twice
C3_Witness ==
    /\ TerminalTask
    /\ Len(polls) >= 2
    /\ polls[1].out.kind = "Ready"
    /\ polls[2].out = Panic

\* The polls of an Active task that yielded a response
ResponsePolls ==
    {i \in DOMAIN polls :
        /\ polls[i].pre.kind = "Fut"
        /\ polls[i].out.kind = "Ready"
        /\ polls[i].out.res.ok}

\* The body a poll yielded / the payload as the transport handed it over
BodyOf(i) == polls[i].out.res.resp.body

Payload == [stream |-> "payload"]

Identity == [stream |-> "Decoder", encoding |-> "Identity"]

\* C11 as stated: whenever an Active task whose decompression flag is false
\* resolves to a response, the body is wrapped in the identity transform.
C11_IdentityAlways ==
    \A i \in ResponsePolls :
        ~polls[i].pre.decompress => BodyOf(i) = Identity

\* C11: in a build with the feature "compress", whenever an Active task
\* whose decompression flag is false resolves to a response, the body is
\* wrapped in the identity transform whatever content-encoding the response
\* declares; in a build without the feature the payload is handed over as
\* the transport yielded it, with no transform.
C11_IdentityWhenOff ==
    \A i \in ResponsePolls :
        ~polls[i].pre.decompress =>
            BodyOf(i) = IF compress THEN Identity ELSE Payload

\* C11 witness: a task with the flag off resolved to a response that
\* declares gzip, and the body is wrapped in the identity transform.
C11_Witness ==
    \E i \in ResponsePolls :
        /\ compress
        /\ ~polls[i].pre.decompress
        /\ polls[i].pre.send.state = "ready"
        /\ polls[i].pre.send.res.resp.encoding = "gzip"
        /\ polls[i].out.res.resp.encoding = "gzip"
        /\ BodyOf(i) = Identity

\* The decoder that matches a content-encoding header
Matching(enc) ==
    CASE enc = "gzip" -> [stream |-> "Decoder", encoding |-> "Gzip"]
      [] enc = "deflate" -> [stream |-> "Decoder", encoding |-> "Deflate"]
      [] enc = "br" -> [stream |-> "Decoder", encoding |-> "Br"]
      [] OTHER -> Identity

\* C12 as stated: whenever an Active task whose decompression flag is true
\* resolves to a response, the body is wrapped in the decoder that matches
\* the response's content-encoding, the identity transform when the header
\* is absent or unrecognized.
C12_DecoderAlways ==
    \A i \in ResponsePolls :
        polls[i].pre.decompress =>
            BodyOf(i) = Matching(polls[i].out.res.resp.encoding)

\* C12: in a build with the feature "compress", whenever an Active task
\* whose decompression flag is true resolves to a response, the body is
\* wrapped in the decoder that matches the response's own content-encoding
\* header, the identity transform when the header is absent or
\* unrecognized; in a build without the feature the payload is handed over
\* with no transform.
C12_DecoderWhenOn ==
    \A i \in ResponsePolls :
        polls[i].pre.decompress =>
            BodyOf(i) = IF compress
                        THEN Matching(polls[i].out.res.resp.encoding)
                        ELSE Payload

\* C12 witness: a task with the flag on resolved to a response that
\* declares gzip and the body is wrapped in the gzip decoder, or to one that
\* declares an unrecognized encoding and the body is wrapped in the identity
\* transform.
C12_Witness ==
    \E i \in ResponsePolls :
        /\ compress
        /\ polls[i].pre.decompress
        /\ polls[i].pre.send.state = "ready"
        /\ \/ /\ polls[i].pre.send.res.resp.encoding = "gzip"
              /\ BodyOf(i) = [stream |-> "Decoder", encoding |-> "Gzip"]
           \/ /\ polls[i].pre.send.res.resp.encoding = "x-unknown"
              /\ BodyOf(i) = Identity

\* The task is Active with no deadline and its send operation holds the
\* response r, not yet handed over.
ReadyWith(r) ==
    /\ task # NoTask
    /\ task.kind = "Fut"
    /\ task.delay = None
    /\ task.send = [state |-> "ready", res |-> [ok |-> TRUE, resp |-> r]]

\* Some poll of a task with no deadline found the send operation holding
\* the response r and yielded r, all but the body as the transport set it.
ResolvedTo(r) ==
    \E i \in ResponsePolls :
        /\ polls[i].pre.delay = None
        /\ polls[i].pre.send = [state |-> "ready", res |-> [ok |-> TRUE, resp |-> r]]
        /\ polls[i].out.res.resp = [r EXCEPT !.body = BodyOf(i)]

\* Every poll of a task with no deadline that found the send operation
\* ready with a response yielded that response, not an error.
NoDeadlinePassThrough ==
    \A i \in DOMAIN polls :
        LET p == polls[i] IN
        (/\ p.pre.kind = "Fut"
         /\ p.pre.delay = None
         /\ p.pre.send.state = "ready"
         /\ p.pre.send.res.ok) =>
            /\ p.out.kind = "Ready"
            /\ p.out.res.ok
            /\ p.out.res.resp = [p.pre.send.res.resp EXCEPT !.body = BodyOf(i)]

\* C13: a task constructed with no deadline whose send operation becomes
\* ready with a response resolves, when it is polled fairly, to that same
\* response: every field other than the body is as the transport set it, and
\* the poll that finds the response never yields an error.
C13_ResolvesToResponse ==
    /\ []NoDeadlinePassThrough
    /\ \A r \in Responses : ReadyWith(r) ~> ResolvedTo(r)

\* C13 witness: a task with no deadline was polled while the send operation
\* was pending, and a later poll yielded the response the send operation
\* had become ready with.
C13_Witness ==
    /\ Len(polls) >= 2
    /\ polls[1].pre.kind = "Fut"
    /\ polls[1].pre.delay = None
    /\ polls[1].pre.send.state = "pending"
    /\ polls[1].out = Pending
    /\ polls[2].pre.send.state = "ready"
    /\ polls[2].pre.send.res.ok
    /\ ResolvedTo(polls[2].pre.send.res.resp)

\* The task is the one send_body built for the arguments in last.
FromSendBody == last.op = "send_json" /\ Len(last.sent) = 1 /\ task.kind = "Fut"

\* C14: the deadline of a task created by send_body is the per-request
\* timeout when one is set, otherwise the client-wide default when one is
\* configured; the task has no deadline timer exactly when both are unset,
\* and the default is not used when a per-request timeout is set.
C14_DeadlineResolution ==
    FromSendBody =>
        LET a == last.args IN
        /\ a.timeout # None =>
               (task.delay # None /\ task.delay[1].dur = a.timeout[1])
        /\ (a.timeout = None /\ a.config.timeout # None) =>
               (task.delay # None /\ task.delay[1].dur = a.config.timeout[1])
        /\ task.delay = None <=> (a.timeout = None /\ a.config.timeout = None)

\* C14 witness: a per-request timeout of zero and a longer client-wide
\* default are both set, the task's deadline is the per-request one, and the
\* first poll yields Timeout.
C14_Witness ==
    /\ FromSendBody
    /\ last.args.timeout = Some(0)
    /\ last.args.config.timeout = Some(MaxDuration)
    /\ task.delay # None
    /\ task.delay[1].dur = 0
    /\ polls # <<>>
    /\ polls[1].out = TimeoutResult

\* The error variant the first poll of the task resolved to
FirstError == polls[1].out.res.err.variant

\* The failure the task was made from: a serialization failure in send_json
\* or send_form / a preparation error of the given variant
SerializationFailed ==
    last.op \in {"send_json", "send_form"} /\ last.value = "unserializable"

PrepFailed(v) == last.op = "from" /\ last.value = v

\* What the mapping does with a malformed URL, a malformed header value, an
\* elapsed deadline and a transport failure
MappingOfTheRest ==
    /\ (polls # <<>> /\ PrepFailed("Url")) =>
           (polls[1].out.kind = "Ready" /\ FirstError = "Url")
    /\ (polls # <<>> /\ PrepFailed("Http")) =>
           (polls[1].out.kind = "Ready" /\ FirstError = "Http")
    /\ \A i \in DOMAIN polls :
           LET p == polls[i] IN
           p.pre.kind = "Fut" =>
               IF p.pre.delay # None /\ p.pre.delay[1].elapsed
               THEN p.out = Ready([ok |-> FALSE,
                                   err |-> SendRequestError("Timeout", "deadline")])
               ELSE (p.pre.send.state = "ready" /\ ~p.pre.send.res.ok) =>
                        p.out = Ready(p.pre.send.res)

\* C15 as stated: a malformed URL becomes the URL error, a malformed header
\* value the HTTP-layer error, a serialization failure in send_json or
\* send_form the HTTP-layer error, an elapsed deadline the Timeout variant,
\* and a transport failure is passed through.
C15_SerializationIsHttp ==
    /\ MappingOfTheRest
    /\ (polls # <<>> /\ SerializationFailed) =>
           (polls[1].out.kind = "Ready" /\ FirstError = "Http")

\* C15: a malformed URL becomes the URL error, a malformed header value the
\* HTTP-layer error, a serialization failure in send_json or send_form the
\* generic boxed error variant that carries the serializer's error, an
\* elapsed deadline the Timeout variant, and a transport failure is passed
\* through.
C15_ErrorMapping ==
    /\ MappingOfTheRest
    /\ (polls # <<>> /\ SerializationFailed) =>
           /\ polls[1].out.kind = "Ready"
           /\ FirstError = "Error"
           /\ polls[1].out.res.err.cause =
                  IF last.op = "send_json" THEN "serde_json" ELSE "serde_urlencoded"

\* C15 witness: the task send_form returned for a value that does not
\* serialize was polled and yielded the boxed serializer error.
C15_Witness ==
    /\ polls # <<>>
    /\ last.op = "send_form"
    /\ SerializationFailed
    /\ polls[1].out =
           Ready([ok |-> FALSE,
                  err |-> SendRequestError("Error", "serde_urlencoded")])

\* The deadline of the task p was made on has not elapsed, or it has none.
NotElapsed(p) ==
    p.pre.kind = "Fut" /\ (p.pre.delay = None \/ ~p.pre.delay[1].elapsed)

\* C16: when a poll of an Active task whose deadline has not elapsed (or
\* that has none) finds the send operation completed with an error, the poll
\* yields exactly that error, whatever the decompression flag and the build:
\* no body transform is applied and the error is not filed anew.
C16_SendErrorVerbatim ==
    \A i \in DOMAIN polls :
        LET p == polls[i] IN
        (/\ NotElapsed(p)
         /\ p.pre.send.state = "ready"
         /\ ~p.pre.send.res.ok) =>
            /\ p.out = Ready([ok |-> FALSE, err |-> p.pre.send.res.err])
            /\ p.post.decompress = p.pre.decompress

\* C16 witness: a task with the decompression flag on, in a build that
\* decompresses, with an armed deadline that has not elapsed, was polled
\* when the send operation had failed, and yielded the transport's error.
C16_Witness ==
    \E i \in DOMAIN polls :
        /\ NotElapsed(polls[i])
        /\ compress
        /\ polls[i].pre.decompress
        /\ polls[i].pre.delay # None
        /\ polls[i].pre.send = [state |-> "ready",
                                res |-> [ok |-> FALSE, err |-> TransportError]]
        /\ polls[i].out = Ready([ok |-> FALSE, err |-> TransportError])

\* C17: a poll of an Active task in which the deadline timer, if any, has
\* not elapsed and the send operation is not ready yields Pending and leaves
\* the task as it was: Active, with the same send operation, the same armed
\* timer and the same decompression flag.
C17_PendingKeepsTask ==
    \A i \in DOMAIN polls :
        LET p == polls[i] IN
        (NotElapsed(p) /\ p.pre.send.state = "pending") =>
            /\ p.out = Pending
            /\ p.post = p.pre
            /\ p.post.kind = "Fut"

\* C17 witness: a task with an armed deadline was polled while neither the
\* timer had elapsed nor the send operation was ready, and a later poll
\* yielded Timeout.
C17_Witness ==
    /\ Len(polls) >= 2
    /\ NotElapsed(polls[1])
    /\ polls[1].pre.delay # None
    /\ polls[1].pre.send.state = "pending"
    /\ polls[1].out = Pending
    /\ polls[2].pre.send.state = "pending"
    /\ polls[2].out = TimeoutResult

\* The task was made with neither a per-request timeout nor a client-wide
\* default.
NoTimeoutGiven ==
    /\ FromSendBody
    /\ last.args.timeout = None
    /\ last.args.config.timeout = None

\* C19: a task made with neither a per-request timeout nor a client-wide
\* default has no deadline timer and never yields the Timeout error of its
\* own: no poll looks at a timer, and what a poll yields while the send
\* operation has not been used up is Pending, the response of the send
\* operation or the error of the send operation.
C19_NoDeadlineNoTimeout ==
    NoTimeoutGiven =>
        /\ task.delay = None
        /\ \A i \in DOMAIN polls :
               LET p == polls[i] IN
               /\ p.out # TimeoutResult
               /\ p.sub = <<"send">>
               /\ p.pre.send.state = "pending" => p.out = Pending
               /\ p.pre.send.state = "ready" =>
                      /\ p.out.kind = "Ready"
                      /\ p.out.res.ok = p.pre.send.res.ok
                      /\ ~p.out.res.ok => p.out.res.err = p.pre.send.res.err

\* C19 witness: a task with no deadline was polled while the send operation
\* was pending and again after it had failed; it yielded Pending and then
\* the transport's error.
C19_Witness ==
    /\ NoTimeoutGiven
    /\ Len(polls) >= 2
    /\ polls[1].pre.send.state = "pending"
    /\ polls[1].out = Pending
    /\ polls[2].pre.send.state = "ready"
    /\ polls[2].out = Ready([ok |-> FALSE, err |-> TransportError])

\* The task is Active and has a deadline timer.
HasDeadline == task # NoTask /\ task.kind = "Fut" /\ task.delay # None

\* Some poll has yielded a final result.
Resolved == \E i \in DOMAIN polls : polls[i].out.kind = "Ready"

\* A poll that finds the send operation pending yields nothing final but
\* Timeout.
OnlyTimeoutWhilePending ==
    \A i \in DOMAIN polls :
        (/\ polls[i].pre.kind = "Fut"
         /\ polls[i].pre.send.state = "pending"
         /\ polls[i].out.kind = "Ready") => polls[i].out = TimeoutResult

\* C20: a task that has a deadline timer resolves when it is polled fairly
\* and the timer elapses: some poll yields a final result, and when the
\* send operation is still pending then, that result is Timeout.
C20_DeadlineResolves ==
    /\ []OnlyTimeoutWhilePending
    /\ HasDeadline ~> Resolved

\* C20 witness: a task with a deadline was polled before the timer elapsed
\* and yielded Pending; the send operation never became ready, and the poll
\* after the timer elapsed yielded Timeout.
C20_Witness ==
    /\ HasDeadline
    /\ Len(polls) = 2
    /\ polls[1].pre.delay # None
    /\ ~polls[1].pre.delay[1].elapsed
    /\ polls[1].out = Pending
    /\ polls[2].pre.send.state = "pending"
    /\ polls[2].pre.delay[1].elapsed
    /\ polls[2].out = TimeoutResult
    /\ task.send.state = "pending"

====
